---- MODULE Spec2Model ----
(***************************************************************************)
(* celldesigner2qual.py: conversion of a CellDesigner SBML model into an   *)
(* SBML-qual document.  The run is one sequential pass: main checks the    *)
(* arguments, read_celldesigner checks the root element and calls          *)
(* species_info and get_transitions, write_qual builds the output tree     *)
(* with add_positions and add_transitions and writes it.                   *)
(*                                                                         *)
(* XML elements are records.  A python dict is a sequence of               *)
(* [key, value] entries in insertion order.  An optional child element     *)
(* (the result of find) is a record with a field "present".                *)
(***************************************************************************)
EXTENDS Integers, Sequences, FiniteSets, TLC

VARIABLES argv, file, pc, info, stdout, qual, outfile

vars == <<argv, file, pc, info, stdout, qual, outfile>>

(***************************************************************************)
(* Bounds of the input documents.                                          *)
(***************************************************************************)
MaxComplex == 1
MaxSimple == 2
MaxReactions == 2
MaxProducts == 2
MaxReactants == 2

SeqsUpTo(S, n) == UNION {[1..k -> S] : k \in 0..n}

(***************************************************************************)
(* Python dict, insertion ordered.                                         *)
(***************************************************************************)
DictKeys(d) == [i \in DOMAIN d |-> d[i].key]

DictKeySet(d) == {d[i].key : i \in DOMAIN d}

DictHas(d, k) == \E i \in DOMAIN d : d[i].key = k

DictGet(d, k) == d[CHOOSE i \in DOMAIN d : d[i].key = k].value

\* faulty variant: every assignment adds an entry
DictSetAppend(d, k, v) == Append(d, [key |-> k, value |-> v])

\* d[k] = v: a new key goes last, an existing key keeps its place
DictSet(d, k, v) ==
    IF DictHas(d, k)
    THEN [i \in DOMAIN d |-> IF d[i].key = k THEN [key |-> k, value |-> v] ELSE d[i]]
    ELSE Append(d, [key |-> k, value |-> v])

(***************************************************************************)
(* The namespace of the accepted root element, and the root tag.           *)
(***************************************************************************)
NS == [sbml |-> "http://www.sbml.org/sbml/level2/version4",
       cd |-> "http://www.sbml.org/2001/ns/celldesigner",
       sbml3 |-> "http://www.sbml.org/sbml/level3/version1/core",
       layout |-> "http://www.sbml.org/sbml/level3/version1/layout/version1",
       qual |-> "http://www.sbml.org/sbml/level3/version1/qual/version1"]

SbmlTag == <<NS.sbml, "sbml">>

(***************************************************************************)
(* get_class and get_mods                                                  *)
(***************************************************************************)
get_class(cd_class) ==
    IF cd_class.present THEN cd_class.text ELSE "PROTEIN"

\* "if cd_modifications:" is false for None and for an element without children
get_mods(cd_modifications) ==
    IF cd_modifications.present /\ Len(cd_modifications.modification) > 0
    THEN [i \in DOMAIN cd_modifications.modification |->
             cd_modifications.modification[i].state]
    ELSE <<>>

(***************************************************************************)
(* species_info                                                            *)
(***************************************************************************)
HasCompartmentAlias(alias) == alias.compartmentAlias.present

\* faulty variant: the path lacks the [@compartmentAlias] predicate
FindAliasesAll(aliases) == aliases

\* findall(...[@compartmentAlias]) over one alias list
FindAliases(aliases) == SelectSeq(aliases, HasCompartmentAlias)

\* chain(complex aliases, simple aliases)
AliasChain(model) ==
    FindAliases(model.listOfComplexSpeciesAliases) \o
    FindAliases(model.listOfSpeciesAliases)

\* model.find('./sbml:listOfSpecies/sbml:species[@id=...]')
FindSpecies(model, id) ==
    model.listOfSpecies[CHOOSE i \in DOMAIN model.listOfSpecies :
                            model.listOfSpecies[i].id = id]

SpeciesRecord(model, species) ==
    LET sbml == FindSpecies(model, species.species)
        annot == sbml.annotation
    IN [activity |-> species.activity,
        x |-> species.bounds.x,
        y |-> species.bounds.y,
        h |-> species.bounds.h,
        w |-> species.bounds.w,
        transitions |-> <<>>,
        name |-> sbml.name,
        type |-> get_class(annot.class),
        modifications |-> get_mods(annot.listOfModifications)]

RECURSIVE species_loop(_, _, _, _)
species_loop(model, chain, i, nameconv) ==
    IF i > Len(chain) THEN nameconv
    ELSE species_loop(model, chain, i + 1,
            DictSet(nameconv, chain[i].id, SpeciesRecord(model, chain[i])))

species_info(model) == species_loop(model, AliasChain(model), 1, <<>>)

(***************************************************************************)
(* get_transitions                                                         *)
(*                                                                         *)
(* The tuple (rtype, reacs, mods) holds the list objects built for one     *)
(* reaction; the field "reaction" is the identity of those objects (the    *)
(* position of the reaction in the document).  No code reads it.           *)
(***************************************************************************)
Influence(trans, rid) ==
    [rtype |-> trans.reactionType,
     reacs |-> trans.baseReactants,
     mods |-> [k \in DOMAIN trans.listOfModification |->
                  <<trans.listOfModification[k].type,
                    trans.listOfModification[k].aliases>>],
     reaction |-> rid]

\* faulty variant: the influence is inserted at the front
AppendTransitionFirst(d, species, infl) ==
    [i \in DOMAIN d |->
        IF d[i].key = species
        THEN [d[i] EXCEPT !.value.transitions = <<infl>> \o @]
        ELSE d[i]]

\* info[species]['transitions'].append(...)
AppendTransition(d, species, infl) ==
    [i \in DOMAIN d |->
        IF d[i].key = species
        THEN [d[i] EXCEPT !.value.transitions = Append(@, infl)]
        ELSE d[i]]

UnknownSpeciesLine(species) == <<"ignoring unknown species ", species>>

\* faulty variant: an unknown product is skipped without a diagnostic
ProductStepSilent(st, species, infl) ==
    IF DictHas(st.info, species)
    THEN [info |-> AppendTransition(st.info, species, infl), out |-> st.out]
    ELSE st

\* the body of "for species in prods"
ProductStep(st, species, infl) ==
    IF DictHas(st.info, species)
    THEN [info |-> AppendTransition(st.info, species, infl), out |-> st.out]
    ELSE [info |-> st.info, out |-> Append(st.out, UnknownSpeciesLine(species))]

RECURSIVE products_loop(_, _, _, _)
products_loop(st, prods, j, infl) ==
    IF j > Len(prods) THEN st
    ELSE products_loop(ProductStep(st, prods[j], infl), prods, j + 1, infl)

RECURSIVE reactions_loop(_, _, _)
reactions_loop(st, reactions, i) ==
    IF i > Len(reactions) THEN st
    ELSE reactions_loop(
            products_loop(st, reactions[i].baseProducts, 1,
                          Influence(reactions[i], i)),
            reactions, i + 1)

\* the returned table and the lines printed, given the table and the output so far
get_transitions(model, d, out) ==
    reactions_loop([info |-> d, out |-> out], model.listOfReactions, 1)

(***************************************************************************)
(* add_positions                                                           *)
(***************************************************************************)
SpeciesGlyph(species, data) ==
    [species |-> species,
     boundingBox |-> [position |-> [x |-> data.x, y |-> data.y],
                      dimensions |-> [height |-> data.h, width |-> data.w]]]

QualitativeSpecies(species, data) ==
    [maxLevel |-> "1",
     compartment |-> "comp1",
     name |-> data.name,
     constant |-> "false",
     id |-> species]

\* one glyph and one qualitative species per item of the table, in its order
add_positions(tree, d) ==
    [tree EXCEPT
        !.listOfSpeciesGlyphs =
            @ \o [i \in DOMAIN d |-> SpeciesGlyph(d[i].key, d[i].value)],
        !.listOfQualitativeSpecies =
            @ \o [i \in DOMAIN d |-> QualitativeSpecies(d[i].key, d[i].value)]]

(***************************************************************************)
(* add_transitions                                                         *)
(***************************************************************************)
\* a modtype is an int (from enumerate) or a str (a modifier's type)
IntModtype(n) == [isStr |-> FALSE, int |-> n, str |-> ""]

StrModtype(s) == [isStr |-> TRUE, int |-> 0, str |-> s]

\* modtype == s, for a str s
ModtypeEquals(modtype, s) == modtype.isStr /\ modtype.str = s

\* faulty variant: the reactants carry the type of the reaction as their modtype
ModifierChainReactionType(reaction) ==
    [k \in DOMAIN reaction.reacs |->
        [modtype |-> StrModtype(reaction.rtype), modifier |-> reaction.reacs[k]]] \o
    [k \in DOMAIN reaction.mods |->
        [modtype |-> StrModtype(reaction.mods[k][1]),
         modifier |-> reaction.mods[k][2]]]

\* chain(enumerate(reaction[1]), reaction[2])
ModifierChain(reaction) ==
    [k \in DOMAIN reaction.reacs |->
        [modtype |-> IntModtype(k - 1), modifier |-> reaction.reacs[k]]] \o
    [k \in DOMAIN reaction.mods |->
        [modtype |-> StrModtype(reaction.mods[k][1]),
         modifier |-> reaction.mods[k][2]]]

\* faulty variant: any modifier type that contains INHIBITION is negative
SignContains(modtype) ==
    IF modtype.isStr /\ modtype.str \in {"INHIBITION", "UNKNOWN_INHIBITION"}
    THEN "negative" ELSE "positive"

Sign(modtype) ==
    IF ModtypeEquals(modtype, "INHIBITION") THEN "negative" ELSE "positive"

\* faulty variant: the counter is incremented before it is used
InputIdFromOne(species, index) == <<"tr_", species, "_in_", index + 1>>

InputId(species, index) == <<"tr_", species, "_in_", index>>

Input(species, index, modtype, modifier) ==
    [qualitativeSpecies |-> modifier,
     transitionEffect |-> "none",
     sign |-> Sign(modtype),
     id |-> InputId(species, index)]

RECURSIVE modifiers_loop(_, _, _, _)
modifiers_loop(st, species, chain, k) ==
    IF k > Len(chain) THEN st
    ELSE modifiers_loop(
            [ilist |-> Append(st.ilist,
                              Input(species, st.index, chain[k].modtype,
                                    chain[k].modifier)),
             index |-> st.index + 1],
            species, chain, k + 1)

RECURSIVE inputs_loop(_, _, _, _)
inputs_loop(st, species, transitions, r) ==
    IF r > Len(transitions) THEN st
    ELSE inputs_loop(
            modifiers_loop(st, species, ModifierChain(transitions[r]), 1),
            species, transitions, r + 1)

ListOfInputs(species, data) ==
    inputs_loop([ilist |-> <<>>, index |-> 0], species, data.transitions, 1).ilist

ListOfOutputs(species) ==
    <<[qualitativeSpecies |-> species,
       transitionEffect |-> "assignmentLevel",
       id |-> <<"tr_", species, "_out">>]>>

ListOfFunctionTerms == <<[tag |-> "defaultTerm", resultLevel |-> "0"]>>

\* faulty variant: the default term is emitted only for a transition with inputs
TransitionTermIfInputs(species, data) ==
    [id |-> <<"tr_", species>>,
     listOfInputs |-> ListOfInputs(species, data),
     listOfOutputs |-> ListOfOutputs(species),
     listOfFunctionTerms |->
        IF data.transitions = <<>> THEN <<>> ELSE ListOfFunctionTerms]

Transition(species, data) ==
    [id |-> <<"tr_", species>>,
     listOfInputs |-> ListOfInputs(species, data),
     listOfOutputs |-> ListOfOutputs(species),
     listOfFunctionTerms |-> ListOfFunctionTerms]

\* one transition per item of the table, in its order
add_transitions(tree, d) ==
    [tree EXCEPT
        !.listOfTransitions =
            @ \o [i \in DOMAIN d |-> Transition(d[i].key, d[i].value)]]

(***************************************************************************)
(* write_qual and main                                                     *)
(***************************************************************************)
NoTree ==
    [listOfCompartments |-> <<>>,
     listOfSpeciesGlyphs |-> <<>>,
     listOfQualitativeSpecies |-> <<>>,
     listOfTransitions |-> <<>>]

\* the model element with its compartment list, before add_positions
NewTree == [NoTree EXCEPT !.listOfCompartments = <<[constant |-> "true", id |-> "comp1"]>>]

UsageLine == <<"Usage: [python3] ", argv[1], " <celldesignerinfile.xml> <sbmlqualoutfile.xml>">>

\* the ellipsis character of the message is written as three dots
ParsingLine == <<"parsing ", argv[2], "...">>

LimitedLine == <<"Currently limited to SBML Level 2 Version 4">>

\* main: len(sys.argv) != 3, usage and exit(1)
MainUsage ==
    /\ pc = "main"
    /\ Len(argv) # 3
    /\ stdout' = Append(stdout, UsageLine)
    /\ pc' = "exit"
    /\ UNCHANGED <<argv, file, info, qual, outfile>>

\* main: the progress line, then read_celldesigner parses the file
MainParse ==
    /\ pc = "main"
    /\ Len(argv) = 3
    /\ stdout' = Append(stdout, ParsingLine)
    /\ pc' = "read_celldesigner"
    /\ UNCHANGED <<argv, file, info, qual, outfile>>

\* read_celldesigner: the root element is not sbml level 2 version 4
ReadBadRoot ==
    /\ pc = "read_celldesigner"
    /\ file.tag # SbmlTag
    /\ stdout' = Append(stdout, LimitedLine)
    /\ pc' = "exit"
    /\ UNCHANGED <<argv, file, info, qual, outfile>>

\* faulty variant: the root element is not checked
ReadSpeciesInfoAnyRoot ==
    /\ pc = "read_celldesigner"
    /\ info' = species_info(file.model)
    /\ pc' = "get_transitions"
    /\ UNCHANGED <<argv, file, stdout, qual, outfile>>

\* read_celldesigner: species_info(model)
ReadSpeciesInfo ==
    /\ pc = "read_celldesigner"
    /\ file.tag = SbmlTag
    /\ info' = species_info(file.model)
    /\ pc' = "get_transitions"
    /\ UNCHANGED <<argv, file, stdout, qual, outfile>>

\* read_celldesigner: get_transitions(model, info)
ReadGetTransitions ==
    /\ pc = "get_transitions"
    /\ LET st == get_transitions(file.model, info, stdout)
       IN /\ info' = st.info
          /\ stdout' = st.out
    /\ pc' = "write_qual"
    /\ UNCHANGED <<argv, file, qual, outfile>>

\* write_qual: root, model, compartment, layout, add_positions
WriteQualPositions ==
    /\ pc = "write_qual"
    /\ qual' = add_positions(NewTree, info)
    /\ pc' = "add_transitions"
    /\ UNCHANGED <<argv, file, info, stdout, outfile>>

\* write_qual: add_transitions
WriteQualTransitions ==
    /\ pc = "add_transitions"
    /\ qual' = add_transitions(qual, info)
    /\ pc' = "tree_write"
    /\ UNCHANGED <<argv, file, info, stdout, outfile>>

\* write_qual: tree.write(filename)
WriteQualWrite ==
    /\ pc = "tree_write"
    /\ outfile' = Append(outfile, [filename |-> argv[3], tree |-> qual])
    /\ pc' = "done"
    /\ UNCHANGED <<argv, file, info, stdout, qual>>

Next ==
    \/ MainUsage
    \/ MainParse
    \/ ReadBadRoot
    \/ ReadSpeciesInfo
    \/ ReadGetTransitions
    \/ WriteQualPositions
    \/ WriteQualTransitions
    \/ WriteQualWrite

(***************************************************************************)
(* Input documents.                                                        *)
(***************************************************************************)
Element(present, text) == [present |-> present, text |-> text]

\* a listOfModifications element: absent, empty, or with modification children
Modifications(present, states) ==
    [present |-> present,
     modification |-> [i \in DOMAIN states |-> [state |-> states[i]]]]

SpeciesDef(id, name, class, mods) ==
    [id |-> id, name |-> name,
     annotation |-> [class |-> class, listOfModifications |-> mods]]

\* s1 has a class and modifications, s2 has neither, s3 has a class and an
\* empty modification list, s4 has modifications and no class
ListOfSpecies ==
    <<SpeciesDef("s1", "A", Element(TRUE, "GENE"),
                 Modifications(TRUE, <<"phosphorylated">>)),
      SpeciesDef("s2", "B", Element(FALSE, ""), Modifications(FALSE, <<>>)),
      SpeciesDef("s3", "C", Element(TRUE, "COMPLEX"), Modifications(TRUE, <<>>)),
      SpeciesDef("s4", "D", Element(FALSE, ""),
                 Modifications(TRUE, <<"acetylated", "phosphorylated">>))>>

Alias(id, placed, species) ==
    [id |-> id,
     compartmentAlias |-> Element(placed, "ca1"),
     species |-> species,
     activity |-> "inactive",
     bounds |-> [x |-> "10.0", y |-> "20.0", w |-> "80.0", h |-> "40.0"]]

ComplexAliases ==
    {Alias(id, placed, sp) : id \in {"csa1"}, placed \in BOOLEAN, sp \in {"s2", "s3"}}

SimpleAliases ==
    {Alias(id, placed, sp) :
        id \in {"sa1", "sa2"}, placed \in BOOLEAN, sp \in {"s1", "s2", "s4"}}

Modification(type, aliases) == [type |-> type, aliases |-> aliases]

Reaction(rtype, reacs, prods, mods) ==
    [reactionType |-> rtype,
     baseReactants |-> reacs,
     baseProducts |-> prods,
     listOfModification |-> mods]

Model(complex, simple, reactions) ==
    [listOfComplexSpeciesAliases |-> complex,
     listOfSpeciesAliases |-> simple,
     listOfSpecies |-> ListOfSpecies,
     listOfReactions |-> reactions]

SbmlFile(model) == [tag |-> SbmlTag, model |-> model]

\* a document whose root element is not the sbml element of level 2 version 4
OtherFile == [tag |-> <<NS.sbml3, "sbml">>, model |-> Model(<<>>, <<>>, <<>>)]

ReactionTypes == {"INHIBITION", "STATE_TRANSITION"}

\* the reactions of the documents that vary their aliases
FixedReactions ==
    <<Reaction("INHIBITION", <<"sa1">>, <<"sa2">>, <<>>),
      Reaction("STATE_TRANSITION", <<"sa2">>, <<"csa1", "sa1">>,
               <<Modification("CATALYSIS", "sa2")>>)>>

\* documents that vary the alias lists
AliasFiles ==
    {SbmlFile(Model(c, s, FixedReactions)) :
        c \in SeqsUpTo(ComplexAliases, MaxComplex),
        s \in SeqsUpTo(SimpleAliases, MaxSimple)}

\* the alias lists of the documents that vary their reactions: sa1 and sa2
\* placed; sa1 placed and sa2 not
BothPlaced == <<Alias("sa1", TRUE, "s2"), Alias("sa2", TRUE, "s1")>>

OnePlaced == <<Alias("sa1", TRUE, "s2"), Alias("sa2", FALSE, "s1")>>

\* what the reactions of the documents that vary the products carry
ProductBodies ==
    {<<"INHIBITION", <<"sa1">>, <<>>>>,
     <<"STATE_TRANSITION", <<"sa2">>, <<Modification("INHIBITION", "sa1")>>>>}

ProductReactions ==
    {Reaction(b[1], b[2], prods, b[3]) :
        b \in ProductBodies, prods \in SeqsUpTo({"sa1", "sa2"}, MaxProducts)}

\* documents that vary the product lists of the reactions
ProductFiles ==
    {SbmlFile(Model(<<>>, s, rs)) :
        s \in {BothPlaced, OnePlaced},
        rs \in SeqsUpTo(ProductReactions, MaxReactions)}

\* sa1 and sa2 placed, sa3 not
ThreeAliases ==
    <<Alias("sa1", TRUE, "s2"), Alias("sa2", TRUE, "s1"), Alias("sa3", FALSE, "s4")>>

ModifierLists ==
    {<<>>,
     <<Modification("INHIBITION", "sa1")>>,
     <<Modification("UNKNOWN_INHIBITION", "sa3"), Modification("INHIBITION", "sa2")>>}

InputReactions ==
    {Reaction(rtype, reacs, prods, mods) :
        rtype \in ReactionTypes,
        reacs \in SeqsUpTo({"sa1"}, MaxReactants),
        prods \in {<<"sa2">>, <<"sa2", "sa1">>},
        mods \in ModifierLists}

\* documents that vary the reactants and modifiers of the reactions
InputFiles ==
    {SbmlFile(Model(<<>>, ThreeAliases, rs)) :
        rs \in SeqsUpTo(InputReactions, MaxReactions)}

ArgVectors ==
    {<<"celldesigner2qual.py">>,
     <<"celldesigner2qual.py", "in.xml">>,
     <<"celldesigner2qual.py", "in.xml", "out.xml">>,
     <<"celldesigner2qual.py", "in.xml", "out.xml", "extra">>}

\* the state at the start of main; a file that is never read is OtherFile
InitFiles(files) ==
    /\ argv \in ArgVectors
    /\ IF Len(argv) = 3 THEN file \in files \cup {OtherFile} ELSE file = OtherFile
    /\ pc = "main"
    /\ info = <<>>
    /\ stdout = <<>>
    /\ qual = NoTree
    /\ outfile = <<>>

Init == InitFiles(AliasFiles)

InitProducts == InitFiles(ProductFiles)

InitInputs == InitFiles(InputFiles)

Spec == Init /\ [][Next]_vars

SpecProducts == InitProducts /\ [][Next]_vars

SpecInputs == InitInputs /\ [][Next]_vars

(***************************************************************************)
(* Vocabulary of the properties.                                           *)
(***************************************************************************)
AliasIds == {"csa1", "sa1", "sa2", "sa3"}

Reactions == file.model.listOfReactions

Range(seq) == {seq[i] : i \in DOMAIN seq}

\* get_transitions has returned
Extracted == pc \in {"write_qual", "add_transitions", "tree_write", "done"}

\* add_positions and add_transitions have returned
Emitted == pc \in {"tree_write", "done"}

TransitionsOf(d, s) == DictGet(d, s).transitions

\* the positions of the influences of reaction r in s's record
InfluencesOf(d, s, r) ==
    IF DictHas(d, s)
    THEN {i \in DOMAIN TransitionsOf(d, s) : TransitionsOf(d, s)[i].reaction = r}
    ELSE {}

\* the occurrences of alias a in the product lists of the document
ProductOccurrences(a) ==
    UNION {{<<r, j>> : j \in {k \in DOMAIN Reactions[r].baseProducts :
                                  Reactions[r].baseProducts[k] = a}} :
           r \in DOMAIN Reactions}

DiagnosticsNaming(a) ==
    {i \in DOMAIN stdout : stdout[i] = <<"ignoring unknown species ", a>>}

Diagnostics ==
    {i \in DOMAIN stdout : \E a \in AliasIds : stdout[i] = <<"ignoring unknown species ", a>>}

HasUnknownProduct(r) ==
    \E p \in Range(Reactions[r].baseProducts) : ~DictHas(info, p)

AllProductsUnknown(r) ==
    /\ Reactions[r].baseProducts # <<>>
    /\ \A p \in Range(Reactions[r].baseProducts) : ~DictHas(info, p)

\* the document without its r-th reaction
WithoutReaction(model, r) ==
    [model EXCEPT !.listOfReactions =
        [i \in 1..(Len(@) - 1) |-> IF i < r THEN @[i] ELSE @[i + 1]]]

\* the transitions a run on the document emits
EmittedTransitions(model) ==
    LET d == get_transitions(model, species_info(model), <<>>).info
    IN add_transitions(add_positions(NewTree, d), d).listOfTransitions

\* where an input comes from: the base reactants of an influence, then its
\* modifiers, for the influences in order
SourcesOf(infl) ==
    [k \in DOMAIN infl.reacs |->
        [kind |-> "reactant", tag |-> "", alias |-> infl.reacs[k]]] \o
    [k \in DOMAIN infl.mods |->
        [kind |-> "modifier", tag |-> infl.mods[k][1], alias |-> infl.mods[k][2]]]

RECURSIVE Sources(_)
Sources(ts) == IF ts = <<>> THEN <<>> ELSE SourcesOf(Head(ts)) \o Sources(Tail(ts))

RECURSIVE ParticipantCount(_)
ParticipantCount(ts) ==
    IF ts = <<>> THEN 0
    ELSE Len(Head(ts).reacs) + Len(Head(ts).mods) + ParticipantCount(Tail(ts))

\* the transition element emitted for the i-th item of the table
TransitionAt(i) == qual.listOfTransitions[i]

(***************************************************************************)
(* C1: the step of get_transitions leaves, in the record of every alias    *)
(* s, an influence of reaction r iff s is among r's base products and s    *)
(* was a key of the table when the step began; each such influence         *)
(* carries r's type, reactants and modifiers; and the influences of a      *)
(* record are in the order of their reactions in the document.             *)
(***************************************************************************)
C1_Step ==
    /\ \A s \in AliasIds : \A r \in DOMAIN Reactions :
          /\ InfluencesOf(info', s, r) # {}
                <=> (s \in Range(Reactions[r].baseProducts) /\ DictHas(info, s))
          /\ \A i \in InfluencesOf(info', s, r) :
                LET t == TransitionsOf(info', s)[i]
                IN /\ t.rtype = Reactions[r].reactionType
                   /\ t.reacs = Reactions[r].baseReactants
                   /\ Len(t.mods) = Len(Reactions[r].listOfModification)
                   /\ \A k \in DOMAIN t.mods :
                         /\ t.mods[k][1] = Reactions[r].listOfModification[k].type
                         /\ t.mods[k][2] = Reactions[r].listOfModification[k].aliases
    /\ \A n \in DOMAIN info' :
          LET ts == info'[n].value.transitions
          IN /\ \A i \in DOMAIN ts : ts[i].reaction \in DOMAIN Reactions
             /\ \A i, j \in DOMAIN ts : i < j => ts[i].reaction <= ts[j].reaction

C1_InfluenceIffKnownProduct == [][pc = "get_transitions" => C1_Step]_vars

\* a record holds influences of two reactions, and a product was unknown
C1_Witness ==
    /\ pc = "write_qual"
    /\ Diagnostics # {}
    /\ \E n \in DOMAIN info :
          /\ Len(info[n].value.transitions) >= 2
          /\ info[n].value.transitions[1].reaction # info[n].value.transitions[2].reaction

(***************************************************************************)
(* C2, as claimed: a reaction with a product alias absent from the table   *)
(* contributes no input to any species, one diagnostic line is printed     *)
(* for it, and the emitted transitions are those of the document without   *)
(* the reaction.                                                           *)
(***************************************************************************)
C2_UnknownProductSkipsReaction ==
    pc = "done" =>
        /\ \A r \in DOMAIN Reactions : HasUnknownProduct(r) =>
              /\ \A s \in AliasIds : InfluencesOf(info, s, r) = {}
              /\ outfile[1].tree.listOfTransitions
                    = EmittedTransitions(WithoutReaction(file.model, r))
        /\ Cardinality(Diagnostics)
              = Cardinality({r \in DOMAIN Reactions : HasUnknownProduct(r)})

(***************************************************************************)
(* C2, amended: every occurrence of a product alias absent from the table  *)
(* prints one diagnostic line naming it, a known product prints none and   *)
(* still receives the influence of the reaction; a reaction none of whose  *)
(* products is in the table contributes no input to any species, and the   *)
(* emitted transitions are those of the document without the reaction.     *)
(***************************************************************************)
C2_UnknownProductSkipsAlias ==
    pc = "done" =>
        /\ \A a \in AliasIds :
              Cardinality(DiagnosticsNaming(a))
                 = IF DictHas(info, a) THEN 0 ELSE Cardinality(ProductOccurrences(a))
        /\ \A r \in DOMAIN Reactions :
              /\ \A s \in Range(Reactions[r].baseProducts) :
                    DictHas(info, s) => InfluencesOf(info, s, r) # {}
              /\ AllProductsUnknown(r) =>
                    /\ \A s \in AliasIds : InfluencesOf(info, s, r) = {}
                    /\ outfile[1].tree.listOfTransitions
                          = EmittedTransitions(WithoutReaction(file.model, r))

\* a reaction with a known and an unknown product, and one with only unknown ones
C2_Witness ==
    /\ pc = "done"
    /\ \E r \in DOMAIN Reactions :
          /\ HasUnknownProduct(r)
          /\ \E s \in AliasIds : InfluencesOf(info, s, r) # {}
    /\ \E r \in DOMAIN Reactions : AllProductsUnknown(r)

(***************************************************************************)
(* C3: in the emitted document an input is negative iff it comes from a    *)
(* modifier whose type is exactly "INHIBITION"; an input that comes from   *)
(* a base reactant is positive, whatever the type of the reaction and      *)
(* the place of the reactant in its list.                                  *)
(***************************************************************************)
C3_SignRule ==
    Emitted =>
        \A n \in DOMAIN info :
            LET ins == TransitionAt(n).listOfInputs
                src == Sources(info[n].value.transitions)
            IN /\ Len(ins) = Len(src)
               /\ \A k \in DOMAIN ins :
                     /\ ins[k].sign \in {"negative", "positive"}
                     /\ ins[k].sign = "negative"
                           <=> (src[k].kind = "modifier" /\ src[k].tag = "INHIBITION")
                     /\ src[k].kind = "reactant" => ins[k].sign = "positive"

\* one transition takes the second reactant of an INHIBITION reaction, an
\* INHIBITION modifier and a modifier of another type
C3_Witness ==
    /\ Emitted
    /\ \E n \in DOMAIN info :
          LET ts == info[n].value.transitions
              ins == TransitionAt(n).listOfInputs
          IN /\ \E i \in DOMAIN ts : ts[i].rtype = "INHIBITION" /\ Len(ts[i].reacs) = 2
             /\ \E i \in DOMAIN ts : \E k \in DOMAIN ts[i].mods :
                   ts[i].mods[k][1] = "UNKNOWN_INHIBITION"
             /\ \E k \in DOMAIN ins : ins[k].sign = "negative"
             /\ \E k \in DOMAIN ins : ins[k].sign = "positive"

(***************************************************************************)
(* The document of the example: simple aliases sa1 and sa2, and one        *)
(* reaction of type INHIBITION from sa1 to sa2 without modifiers.          *)
(***************************************************************************)
ExampleFile ==
    SbmlFile(Model(<<>>, BothPlaced,
                   <<Reaction("INHIBITION", <<"sa1">>, <<"sa2">>, <<>>)>>))

ExampleShape(tree) ==
    /\ Len(tree.listOfTransitions) = 2
    /\ tree.listOfTransitions[1].id = <<"tr_", "sa1">>
    /\ tree.listOfTransitions[1].listOfInputs = <<>>
    /\ tree.listOfTransitions[2].id = <<"tr_", "sa2">>
    /\ Len(tree.listOfTransitions[2].listOfInputs) = 1
    /\ tree.listOfTransitions[2].listOfInputs[1].qualitativeSpecies = "sa1"
    /\ tree.listOfTransitions[2].listOfInputs[1].id = <<"tr_", "sa2", "_in_", 0>>

(***************************************************************************)
(* C4, as claimed: for the document of the example, tr_sa1 has no input    *)
(* and tr_sa2 has one input, of sa1, with id tr_sa2_in_0 and sign          *)
(* negative.                                                               *)
(***************************************************************************)
C4_ExampleNegative ==
    (pc = "done" /\ file = ExampleFile) =>
        /\ ExampleShape(outfile[1].tree)
        /\ outfile[1].tree.listOfTransitions[2].listOfInputs[1].sign = "negative"

(***************************************************************************)
(* C4, amended: for the document of the example, tr_sa1 has no input and   *)
(* tr_sa2 has one input, of sa1, with id tr_sa2_in_0 and sign positive.    *)
(***************************************************************************)
C4_ExamplePositive ==
    (pc = "done" /\ file = ExampleFile) =>
        /\ ExampleShape(outfile[1].tree)
        /\ outfile[1].tree.listOfTransitions[2].listOfInputs[1].sign = "positive"

C4_Witness == pc = "done" /\ file = ExampleFile /\ Len(outfile) = 1

(***************************************************************************)
(* C5: every key of the table is the id of exactly one qualitative         *)
(* species and the species of exactly one transition output; the ids of    *)
(* the qualitative species are pairwise distinct and are ids of aliases    *)
(* of the document; qualitative species and transitions are in the order   *)
(* of the table.                                                           *)
(***************************************************************************)
InputAliasIds ==
    {file.model.listOfComplexSpeciesAliases[i].id :
        i \in DOMAIN file.model.listOfComplexSpeciesAliases} \cup
    {file.model.listOfSpeciesAliases[i].id :
        i \in DOMAIN file.model.listOfSpeciesAliases}

OutputsOf(k) ==
    UNION {{<<t, o>> : o \in {x \in DOMAIN qual.listOfTransitions[t].listOfOutputs :
                qual.listOfTransitions[t].listOfOutputs[x].qualitativeSpecies = k}} :
           t \in DOMAIN qual.listOfTransitions}

C5_Coverage ==
    Emitted =>
        LET qs == qual.listOfQualitativeSpecies
            ts == qual.listOfTransitions
        IN /\ \A n \in DOMAIN info :
                 /\ Cardinality({i \in DOMAIN qs : qs[i].id = info[n].key}) = 1
                 /\ Cardinality(OutputsOf(info[n].key)) = 1
           /\ \A i, j \in DOMAIN qs : i # j => qs[i].id # qs[j].id
           /\ \A i \in DOMAIN qs : qs[i].id \in InputAliasIds
           /\ [i \in DOMAIN qs |-> qs[i].id] = DictKeys(info)
           /\ [i \in DOMAIN ts |-> ts[i].id] = [n \in DOMAIN info |-> <<"tr_", info[n].key>>]
           /\ [i \in DOMAIN ts |-> ts[i].listOfOutputs[1].qualitativeSpecies]
                 = DictKeys(info)

\* a table of two keys made from three placed aliases, two of them with one id
C5_Witness ==
    /\ pc = "done"
    /\ Len(info) = 2
    /\ Len(AliasChain(file.model)) = 3
    /\ Len(outfile[1].tree.listOfQualitativeSpecies) = 2

(***************************************************************************)
(* C6: every emitted transition has exactly one output, of the species     *)
(* itself with effect assignmentLevel, and exactly one function term,      *)
(* the default term with result level 0, whatever its inputs; every        *)
(* species of the table has a transition, and the transition of a          *)
(* species without influences has no input.                                *)
(***************************************************************************)
C6_OneOutputOneDefaultTerm ==
    Emitted =>
        /\ Len(qual.listOfTransitions) = Len(info)
        /\ \A n \in DOMAIN info :
              LET t == TransitionAt(n)
              IN /\ Len(t.listOfOutputs) = 1
                 /\ t.listOfOutputs[1].qualitativeSpecies = info[n].key
                 /\ t.listOfOutputs[1].transitionEffect = "assignmentLevel"
                 /\ Len(t.listOfFunctionTerms) = 1
                 /\ t.listOfFunctionTerms[1].tag = "defaultTerm"
                 /\ t.listOfFunctionTerms[1].resultLevel = "0"
                 /\ info[n].value.transitions = <<>> => t.listOfInputs = <<>>

\* a species without influences beside a species with several inputs
C6_Witness ==
    /\ Emitted
    /\ \E n \in DOMAIN info :
          info[n].value.transitions = <<>> /\ TransitionAt(n).listOfInputs = <<>>
    /\ \E n \in DOMAIN info : Len(TransitionAt(n).listOfInputs) >= 3

(***************************************************************************)
(* C7: the output file is written at most once, and only by a run with     *)
(* two arguments and an sbml root that has passed through species and      *)
(* transition extraction; a run with another argument count ends before    *)
(* parsing, a run with another root ends before species extraction, and    *)
(* neither writes the file.                                                *)
(***************************************************************************)
C7_WriteOnceAtEnd ==
    /\ Len(outfile) <= 1
    /\ outfile # <<>> =>
          /\ pc = "done"
          /\ Len(argv) = 3
          /\ file.tag = SbmlTag
          /\ \E i \in DOMAIN stdout : stdout[i][1] = "parsing "
          /\ outfile[1].filename = argv[3]
          /\ outfile[1].tree.listOfQualitativeSpecies
                = [n \in DOMAIN info |-> QualitativeSpecies(info[n].key, info[n].value)]
    /\ pc = "done" => Len(outfile) = 1
    /\ Len(argv) # 3 =>
          /\ pc \in {"main", "exit"}
          /\ \A i \in DOMAIN stdout : stdout[i][1] # "parsing "
          /\ info = <<>> /\ qual = NoTree /\ outfile = <<>>
    /\ file.tag # SbmlTag =>
          /\ pc \in {"main", "read_celldesigner", "exit"}
          /\ info = <<>> /\ qual = NoTree /\ outfile = <<>>

\* a run with two arguments has ended on the root element check
C7_Witness ==
    /\ pc = "exit"
    /\ Len(argv) = 3
    /\ file.tag # SbmlTag
    /\ Len(stdout) = 2
    /\ outfile = <<>>

(***************************************************************************)
(* C8: when species_info returns, the keys of the table are exactly the    *)
(* ids of the complex and simple aliases that declare a compartment        *)
(* alias, the keys of complex aliases come before the keys of simple       *)
(* aliases, and the record of an alias whose species definition has no     *)
(* class has class PROTEIN, the record of one whose definition has no      *)
(* modification list has no modifications.  (Where two aliases declare     *)
(* one id, the record is that of the later one.)                           *)
(***************************************************************************)
ComplexList == file.model.listOfComplexSpeciesAliases

SimpleList == file.model.listOfSpeciesAliases

PlacedIds(aliases) ==
    {aliases[i].id : i \in {j \in DOMAIN aliases : aliases[j].compartmentAlias.present}}

\* all aliases of the document, complex ones first
AllAliases == ComplexList \o SimpleList

\* the placed aliases that no later placed alias of the same id replaces
Surviving ==
    {i \in DOMAIN AllAliases :
        /\ AllAliases[i].compartmentAlias.present
        /\ \A j \in DOMAIN AllAliases :
              (j > i /\ AllAliases[j].compartmentAlias.present)
                 => AllAliases[j].id # AllAliases[i].id}

DefinitionOf(alias) ==
    CHOOSE d \in Range(file.model.listOfSpecies) : d.id = alias.species

C8_SpeciesTable ==
    pc = "get_transitions" =>
        /\ DictKeySet(info) = PlacedIds(ComplexList) \cup PlacedIds(SimpleList)
        /\ \A i, j \in DOMAIN info :
              (info[i].key \in PlacedIds(ComplexList)
                  /\ info[j].key \notin PlacedIds(ComplexList)) => i < j
        /\ \A i \in Surviving :
              LET def == DefinitionOf(AllAliases[i]).annotation
              IN /\ DictHas(info, AllAliases[i].id)
                 /\ ~def.class.present
                       => DictGet(info, AllAliases[i].id).type = "PROTEIN"
                 /\ def.class.present
                       => DictGet(info, AllAliases[i].id).type = def.class.text
                 /\ ~def.listOfModifications.present
                       => DictGet(info, AllAliases[i].id).modifications = <<>>
                 /\ DictGet(info, AllAliases[i].id).transitions = <<>>

\* a placed complex alias, a placed simple alias of a species without class
\* and modification list, and an alias that is not placed
C8_Witness ==
    /\ pc = "get_transitions"
    /\ PlacedIds(ComplexList) # {}
    /\ \E i \in DOMAIN SimpleList : ~SimpleList[i].compartmentAlias.present
    /\ \E i \in DOMAIN SimpleList :
          /\ SimpleList[i].compartmentAlias.present
          /\ SimpleList[i].species = "s2"
          /\ DictGet(info, SimpleList[i].id).type = "PROTEIN"
    /\ Len(info) = 2

(***************************************************************************)
(* C9: the inputs of tr_s are, for the influences of s in order, the       *)
(* base reactants of the influence and then its modifiers; the k-th        *)
(* input, counted from 0, has id tr_<s>_in_<k>; and the number of inputs   *)
(* is the number of reactants and modifiers of all influences of s.        *)
(***************************************************************************)
C9_InputOrderAndIds ==
    Emitted =>
        \A n \in DOMAIN info :
            LET ins == TransitionAt(n).listOfInputs
                src == Sources(info[n].value.transitions)
            IN /\ Len(ins) = ParticipantCount(info[n].value.transitions)
               /\ Len(ins) = Len(src)
               /\ \A k \in DOMAIN ins :
                     /\ ins[k].qualitativeSpecies = src[k].alias
                     /\ ins[k].id = <<"tr_", info[n].key, "_in_", k - 1>>

\* two species with inputs, one of them with two influences that each have
\* a reactant and a modifier
C9_Witness ==
    /\ Emitted
    /\ \A n \in 1..2 : TransitionAt(n).listOfInputs # <<>>
    /\ \E n \in DOMAIN info :
          LET ts == info[n].value.transitions
          IN /\ Len(ts) >= 2
             /\ \A i \in 1..2 : ts[i].reacs # <<>> /\ ts[i].mods # <<>>

(***************************************************************************)
(* C10: in the emitted document every input references the id of a         *)
(* qualitative species of the same document.                               *)
(***************************************************************************)
C10_InputsReferenceEmittedSpecies ==
    Emitted =>
        \A t \in DOMAIN qual.listOfTransitions :
            \A k \in DOMAIN qual.listOfTransitions[t].listOfInputs :
                \E q \in DOMAIN qual.listOfQualitativeSpecies :
                    qual.listOfQualitativeSpecies[q].id
                       = qual.listOfTransitions[t].listOfInputs[k].qualitativeSpecies

====
